---------------------------- MODULE Spec2Model ----------------------------
(***************************************************************************)
(* Reaction-time game (src/main.cpp): the game state machine, the button   *)
(* debounce, the random go-delay, the LED ticker and the reaction timer.   *)
(*                                                                         *)
(* Time is a model clock in whole milliseconds.  A Timeout, Ticker or      *)
(* Timer of the platform library is modelled by what the program can       *)
(* observe of it: a Timeout is armed with a duration and calls back once   *)
(* when it has run down, a Ticker calls back every period, a Timer adds up *)
(* the time during which it runs.                                          *)
(*                                                                         *)
(* A handler is the sequence of the source lines it executes; a line is    *)
(* named by its number in src/main.cpp.  Spec runs every handler to        *)
(* completion; SpecIrq also lets a handler run line by line and be         *)
(* interrupted by a handler of another interrupt line.                     *)
(***************************************************************************)
EXTENDS Integers, Sequences, FiniteSets, TLC

VARIABLES
    state,                       \* AppState state
    reaction_time,               \* uint32_t, as <<high half, low half>>
    fastest_time,                \* uint32_t, as <<high half, low half>>
    led_state,                   \* bool led_state
    green_led,                   \* DigitalOut green_led: 0 or 1
    user_button_debouncing,      \* volatile bool
    external_button_debouncing,  \* volatile bool
    debounce_user_button,        \* Timeout
    debounce_external_button,    \* Timeout
    random_delay,                \* Timeout
    led_ticker,                  \* Ticker
    reaction_timer,              \* Timer
    irq,                         \* the handler in progress, if any
    slow,                        \* history: how many handlers have run line by line
    last,                        \* history: the handler that completed last
    since_user,                  \* history: ms since the last accepted user edge
    since_ext,                   \* history: ms since the last external edge
    since_go,                    \* history: ms since GAME was last entered
    rounds                       \* history: times of the rounds completed since the last reset

prog == <<state, reaction_time, fastest_time, led_state, green_led,
          user_button_debouncing, external_button_debouncing,
          debounce_user_button, debounce_external_button, random_delay,
          led_ticker, reaction_timer>>

hist == <<last, slow, since_user, since_ext, since_go, rounds>>

vars == <<prog, irq, hist>>

-----------------------------------------------------------------------------
(* Bounds of the model. *)

\* The clock stops advancing once a running reaction timer has reached this.
MaxElapsed == 200

\* How many handlers of a behaviour run line by line (the others run to
\* completion).
MaxSlow == 1

\* The values rand() is taken to return: the ends of its range and the
\* values around a multiple of 4000.
RandValues == {0, 1, 3999, 4000, 2147483647}

\* The steps by which the clock advances besides the step to the next expiry.
ClockSteps == {100}

-----------------------------------------------------------------------------
(* uint32_t: TLC's integers are 32 bits signed, so a uint32_t is kept as  *)
(* its two 16-bit halves.                                                  *)

ToU32(n) == <<(n \div 65536) % 65536, n % 65536>>

UINT32_MAX == <<65535, 65535>>

U32Less(a, b) == a[1] < b[1] \/ (a[1] = b[1] /\ a[2] < b[2])

-----------------------------------------------------------------------------
(* The platform's timing objects. *)

DEBOUNCE_DELAY_MS == 200

TimeoutDetached == [on |-> FALSE, left |-> 0, dur |-> 0]

TimeoutAttach(d) == [on |-> TRUE, left |-> d, dur |-> d]

TickerDetached == [on |-> FALSE, left |-> 0, period |-> 0]

TickerAttach(p) == [on |-> TRUE, left |-> p, period |-> p]

TimerIdle == [running |-> FALSE, elapsed |-> 0]

TimerReset(t) == [t EXCEPT !.elapsed = 0]

TimerStart(t) == [t EXCEPT !.running = TRUE]

TimerStop(t) == [t EXCEPT !.running = FALSE]

\* Mutant: the modulus one too wide.
delay_wide(r) == (r % 4001) + 1000

\* rand() % 4000 + 1000
\* Mutant: the go-delay may be shorter than the quiet window.
delay_short(r) == (r % 4000) + 100

delay(r) == (r % 4000) + 1000

-----------------------------------------------------------------------------
(* The program's objects as one record, and the globals as constructed.    *)

Cur == [state |-> state,
        reaction_time |-> reaction_time,
        fastest_time |-> fastest_time,
        led_state |-> led_state,
        green_led |-> green_led,
        user_button_debouncing |-> user_button_debouncing,
        external_button_debouncing |-> external_button_debouncing,
        debounce_user_button |-> debounce_user_button,
        debounce_external_button |-> debounce_external_button,
        random_delay |-> random_delay,
        led_ticker |-> led_ticker,
        reaction_timer |-> reaction_timer]

Globals == [state |-> "PREGAME",
            reaction_time |-> ToU32(0),
            fastest_time |-> UINT32_MAX,
            led_state |-> FALSE,
            green_led |-> 0,
            user_button_debouncing |-> FALSE,
            external_button_debouncing |-> FALSE,
            debounce_user_button |-> TimeoutDetached,
            debounce_external_button |-> TimeoutDetached,
            random_delay |-> TimeoutDetached,
            led_ticker |-> TickerDetached,
            reaction_timer |-> TimerIdle]

Holds(m) ==
    /\ state = m.state
    /\ reaction_time = m.reaction_time
    /\ fastest_time = m.fastest_time
    /\ led_state = m.led_state
    /\ green_led = m.green_led
    /\ user_button_debouncing = m.user_button_debouncing
    /\ external_button_debouncing = m.external_button_debouncing
    /\ debounce_user_button = m.debounce_user_button
    /\ debounce_external_button = m.debounce_external_button
    /\ random_delay = m.random_delay
    /\ led_ticker = m.led_ticker
    /\ reaction_timer = m.reaction_timer

Commit(m) ==
    /\ state' = m.state
    /\ reaction_time' = m.reaction_time
    /\ fastest_time' = m.fastest_time
    /\ led_state' = m.led_state
    /\ green_led' = m.green_led
    /\ user_button_debouncing' = m.user_button_debouncing
    /\ external_button_debouncing' = m.external_button_debouncing
    /\ debounce_user_button' = m.debounce_user_button
    /\ debounce_external_button' = m.debounce_external_button
    /\ random_delay' = m.random_delay
    /\ led_ticker' = m.led_ticker
    /\ reaction_timer' = m.reaction_timer

-----------------------------------------------------------------------------
(* The handlers: the lines each executes, in order.  The LCD calls write   *)
(* no program state and are left out.                                      *)

debounce_user_button_callback == <<20>>

start_pregame == <<102, 103, 104>>

\* Mutant: the blink is left running when a round starts (line 113).
start_game_keeps_ticker == <<111, 112, 117>>

\* Mutant: start_game does not attach the go-delay.
start_game_no_delay == <<111, 112, 113>>

start_game == <<111, 112, 113, 117>>

\* Mutant: the LED is not turned on at the go signal (line 130).
on_random_delay_end_no_led == <<129, 131, 132>>

\* Mutant: the reaction timer is started without being reset (line 131).
on_random_delay_end_no_reset == <<129, 130, 132>>

on_random_delay_end == <<129, 130, 131, 132>>

\* Mutant: show_result does not stop the reaction timer (line 141).
show_result_no_stop == <<143, 145, 150>>

show_result == <<141, 143, 145, 150>>

\* Mutant: the reset leaves the go-delay attached (line 168).
reset_game_keeps_delay == <<161, 162, 163, 164, 167, 169, 173>>

\* Mutant: the reset leaves the fastest time (line 162).
reset_game_keeps_best == <<161, 163, 164, 167, 168, 169, 173>>

reset_game == <<161, 162, 163, 164, 167, 168, 169, 173>>

toggle_led == <<178, 179>>

\* Mutant: the quiet window is armed before the debounce check.
on_user_button_press_rearms == <<193, 184, 190, 196>>

\* Mutant: the debounce check of line 184 is left out.
on_user_button_press_unguarded == <<190, 193, 196>>

on_user_button_press == <<184, 190, 193, 196>>

on_external_button_press == <<217>>

\* Mutant: the early press leaves the go-delay attached (line 233).
detect_cheating_keeps_delay == <<222, 225, 228, 230, 232>>

detect_cheating == <<222, 225, 228, 230, 232, 233>>

\* Mutant: the fastest time is overwritten by every round.
UpdateFastest_Always(m) == [m EXCEPT !.fastest_time = m.reaction_time]

\* Lines 145-147: if (reaction_time < fastest_time) fastest_time = reaction_time
UpdateFastest(m) ==
    IF U32Less(m.reaction_time, m.fastest_time)
    THEN [m EXCEPT !.fastest_time = m.reaction_time]
    ELSE m

\* What line l does to the program's objects; r is what rand() returns.
Exec(l, m, r) ==
    CASE l = 20  -> [m EXCEPT !.user_button_debouncing = FALSE]
      [] l = 102 -> [m EXCEPT !.state = "PREGAME"]
      [] l = 103 -> [m EXCEPT !.green_led = 0]
      [] l = 104 -> [m EXCEPT !.led_ticker = TickerAttach(100)]
      [] l = 111 -> [m EXCEPT !.state = "START"]
      [] l = 112 -> [m EXCEPT !.green_led = 0]
      [] l = 113 -> [m EXCEPT !.led_ticker = TickerDetached]
      [] l = 117 -> [m EXCEPT !.random_delay = TimeoutAttach(delay(r))]
      [] l = 129 -> [m EXCEPT !.state = "GAME"]
      [] l = 130 -> [m EXCEPT !.green_led = 1]
      [] l = 131 -> [m EXCEPT !.reaction_timer = TimerReset(@)]
      [] l = 132 -> [m EXCEPT !.reaction_timer = TimerStart(@)]
      [] l = 141 -> [m EXCEPT !.reaction_timer = TimerStop(@)]
      [] l = 143 -> [m EXCEPT !.reaction_time = ToU32(m.reaction_timer.elapsed)]
      [] l = 145 -> UpdateFastest(m)
      [] l = 150 -> [m EXCEPT !.state = "RESULT"]
      [] l = 161 -> [m EXCEPT !.state = "PREGAME"]
      [] l = 162 -> [m EXCEPT !.fastest_time = UINT32_MAX]
      [] l = 163 -> [m EXCEPT !.reaction_time = ToU32(0)]
      [] l = 164 -> [m EXCEPT !.green_led = 0]
      [] l = 167 -> [m EXCEPT !.reaction_timer = TimerStop(@)]
      [] l = 168 -> [m EXCEPT !.random_delay = TimeoutDetached]
      [] l = 169 -> [m EXCEPT !.led_ticker = TickerDetached]
      [] l = 178 -> [m EXCEPT !.led_state = ~ m.led_state]
      [] l = 179 -> [m EXCEPT !.green_led = IF m.led_state THEN 1 ELSE 0]
      [] l = 190 -> [m EXCEPT !.user_button_debouncing = TRUE]
      [] l = 193 -> [m EXCEPT !.debounce_user_button = TimeoutAttach(DEBOUNCE_DELAY_MS)]
      [] l = 222 -> [m EXCEPT !.state = "CHEATING"]
      [] l = 225 -> [m EXCEPT !.green_led = 0]
      [] l = 228 -> [m EXCEPT !.led_ticker = TickerDetached]
      [] l = 230 -> [m EXCEPT !.led_ticker = TickerAttach(500)]
      [] l = 232 -> [m EXCEPT !.reaction_timer = TimerStop(@)]
      [] l = 233 -> [m EXCEPT !.random_delay = TimeoutDetached]
      [] OTHER   -> m

\* Mutant: a press in RESULT starts the next round at once.
Switch_ResultRestarts(s) ==
    CASE s = "PREGAME"  -> start_game
      [] s = "START"    -> detect_cheating
      [] s = "GAME"     -> show_result
      [] s = "RESULT"   -> start_game
      [] s = "CHEATING" -> start_pregame

\* Lines 196-212: the handler the switch calls in state s.
Switch(s) ==
    CASE s = "PREGAME"  -> start_game
      [] s = "START"    -> detect_cheating
      [] s = "GAME"     -> show_result
      [] s = "RESULT"   -> start_pregame
      [] s = "CHEATING" -> start_pregame

\* The lines still to execute after line l, executed with the objects as
\* in m and `rest` the lines after it: a return drops them, a call puts
\* the callee's lines before them.
Rest(l, m, rest) ==
    CASE l = 184 -> IF m.user_button_debouncing THEN <<>> ELSE rest
      [] l = 196 -> Switch(m.state) \o rest
      [] l = 173 -> start_pregame \o rest
      [] l = 217 -> reset_game \o rest
      [] OTHER   -> rest

\* The lines `run` executed to completion from m: the first line is executed,
\* then the lines that follow it from the objects as it left them.
RECURSIVE Complete(_, _, _)
Complete(run, m, r) ==
    IF run = <<>> THEN m
    ELSE CHOOSE end \in { Complete(nxt[1], nxt[2], r) :
                            nxt \in {<<Rest(Head(run), m, Tail(run)),
                                       Exec(Head(run), m, r)>>} } : TRUE

-----------------------------------------------------------------------------
(* Events.  A button edge is delivered by the button's interrupt line; the *)
(* callbacks of every Timeout and of the Ticker are delivered by the one   *)
(* interrupt line of the platform's timer.                                 *)

Events == {"user", "ext", "debounce", "delay", "tick"}

IrqLine(ev) ==
    CASE ev = "user" -> "BUTTON1"
      [] ev = "ext"  -> "PA_6"
      [] OTHER       -> "us_ticker"

Body(ev) ==
    CASE ev = "user"     -> on_user_button_press
      [] ev = "ext"      -> on_external_button_press
      [] ev = "debounce" -> debounce_user_button_callback
      [] ev = "delay"    -> on_random_delay_end
      [] ev = "tick"     -> toggle_led

\* A Timeout or the Ticker has run down and its callback is to be called.
Due(t) == t.on /\ t.left = 0

\* The event can happen now.  A button edge can come at any time; a
\* callback comes when its Timeout or Ticker has run down.
Raised(ev) ==
    CASE ev = "debounce" -> Due(debounce_user_button)
      [] ev = "delay"    -> Due(random_delay)
      [] ev = "tick"     -> Due(led_ticker)
      [] OTHER           -> TRUE

\* A callback that is due is called before the clock goes on and, when no
\* handler is running, before a button edge of the same clock reading.
NoCallbackDue ==
    /\ ~ Due(debounce_user_button)
    /\ ~ Due(debounce_external_button)
    /\ ~ Due(random_delay)
    /\ ~ Due(led_ticker)

\* What the timer's interrupt does before it calls the callback: a Timeout
\* is one-shot, the Ticker is set for its next period.
Dispatch(ev, m) ==
    CASE ev = "debounce" -> [m EXCEPT !.debounce_user_button = TimeoutDetached]
      [] ev = "delay"    -> [m EXCEPT !.random_delay = TimeoutDetached]
      [] ev = "tick"     -> [m EXCEPT !.led_ticker.left = m.led_ticker.period]
      [] OTHER           -> m

-----------------------------------------------------------------------------
(* History: what the handler that completed last was and found.            *)

\* The quiet window the debounce is to keep, in ms.
QuietWindow == 200

\* What the history keeps of the program's objects: all but the readings
\* of the timing objects.
Snap(m) == [state |-> m.state,
            reaction_time |-> m.reaction_time,
            fastest_time |-> m.fastest_time,
            led_state |-> m.led_state,
            green_led |-> m.green_led,
            user_button_debouncing |-> m.user_button_debouncing,
            external_button_debouncing |-> m.external_button_debouncing,
            debounce_user_on |-> m.debounce_user_button.on,
            random_delay_on |-> m.random_delay.on,
            led_ticker_on |-> m.led_ticker.on,
            led_ticker_period |-> m.led_ticker.period,
            reaction_timer_running |-> m.reaction_timer.running]

IdleIrq == [run |-> <<>>, ev |-> "none", pre |-> Snap(Globals), accepted |-> FALSE,
            sw |-> "none", su |-> 0, se |-> 0, sg |-> 0, hit |-> {}]

Idle == irq.run = <<>>

\* The record of a completed handler: the event, the program's objects as
\* it found them, whether the edge passed the debounce check (line 184),
\* the state the switch read (line 196), the history clocks as it found
\* them, and the events that interrupted it.
Record(ev, pre, acc, sw, su, se, sg, hit) ==
    [ev |-> ev, pre |-> pre, accepted |-> acc, sw |-> sw, su |-> su, se |-> se,
     sg |-> sg, hit |-> hit]

\* The history clocks after event ev (an accepted user edge when acc).
Clocks(ev, acc) ==
    /\ since_user' = IF ev = "user" /\ acc THEN 0 ELSE since_user
    /\ since_ext' = IF ev = "ext" THEN 0 ELSE since_ext
    /\ since_go' = IF ev = "delay" THEN 0 ELSE since_go

\* The rounds completed since the last reset, after a handler of event ev
\* that found the objects as in pre and left them as in post.
Rounds(ev, acc, pre, post) ==
    CASE ev = "ext" -> {}
      [] ev = "user" /\ acc /\ pre.state = "GAME" -> rounds \cup {post.reaction_time}
      [] OTHER -> rounds

-----------------------------------------------------------------------------
(* Handlers run to completion. *)

\* rand() is called on a user edge only (line 116).
Rands(ev) == IF ev = "user" THEN RandValues ELSE {0}

Handle(ev) ==
    /\ Raised(ev)
    /\ \E r \in Rands(ev) :
         LET acc  == ev = "user" => ~ user_button_debouncing
             post == Complete(Body(ev), Dispatch(ev, Cur), r)
         IN  /\ Commit(post)
             /\ last' = Record(ev, Snap(Cur), acc,
                               IF ev = "user" /\ acc THEN state ELSE "none",
                               since_user, since_ext, since_go, {})
             /\ Clocks(ev, acc)
             /\ rounds' = Rounds(ev, acc, Cur, post)

UserButtonEdge == Idle /\ NoCallbackDue /\ Handle("user") /\ UNCHANGED <<irq, slow>>

ExternalButtonEdge == Idle /\ NoCallbackDue /\ Handle("ext") /\ UNCHANGED <<irq, slow>>

DebounceUserExpires == Idle /\ Handle("debounce") /\ UNCHANGED <<irq, slow>>

RandomDelayExpires == Idle /\ Handle("delay") /\ UNCHANGED <<irq, slow>>

LedTick == Idle /\ Handle("tick") /\ UNCHANGED <<irq, slow>>

-----------------------------------------------------------------------------
(* The clock. *)

Min(a, b) == IF a < b THEN a ELSE b

Timers == {debounce_user_button, debounce_external_button, random_delay, led_ticker}

\* The clock advances by dt ms: not past the time a callback is due.
Advance(dt) ==
    /\ Idle
    /\ NoCallbackDue
    /\ dt > 0
    /\ \A t \in Timers : t.on => dt <= t.left
    /\ reaction_timer.running => reaction_timer.elapsed + dt <= MaxElapsed
    /\ state = "GAME" => since_go + dt <= MaxElapsed
    /\ debounce_user_button' =
         IF debounce_user_button.on
         THEN [debounce_user_button EXCEPT !.left = @ - dt] ELSE debounce_user_button
    /\ debounce_external_button' =
         IF debounce_external_button.on
         THEN [debounce_external_button EXCEPT !.left = @ - dt] ELSE debounce_external_button
    /\ random_delay' =
         IF random_delay.on THEN [random_delay EXCEPT !.left = @ - dt] ELSE random_delay
    /\ led_ticker' =
         IF led_ticker.on THEN [led_ticker EXCEPT !.left = @ - dt] ELSE led_ticker
    /\ reaction_timer' =
         IF reaction_timer.running
         THEN [reaction_timer EXCEPT !.elapsed = @ + dt] ELSE reaction_timer
    /\ since_user' = Min(since_user + dt, QuietWindow)
    /\ since_ext' = Min(since_ext + dt, QuietWindow)
    /\ since_go' = IF state = "GAME" THEN since_go + dt ELSE since_go
    /\ UNCHANGED <<state, reaction_time, fastest_time, led_state, green_led,
                   user_button_debouncing, external_button_debouncing,
                   irq, last, slow, rounds>>

TimePasses ==
    \E dt \in ClockSteps \cup {t.left : t \in Timers} : Advance(dt)

-----------------------------------------------------------------------------
(* The program after main() has set it up: the globals as constructed and  *)
(* start_pregame() called (line 77).                                       *)

Init ==
    /\ Holds(Complete(start_pregame, Globals, 0))
    /\ irq = IdleIrq
    /\ slow = 0
    /\ last = Record("main", Snap(Globals), FALSE, "none", QuietWindow, QuietWindow, 0, {})
    /\ since_user = QuietWindow
    /\ since_ext = QuietWindow
    /\ since_go = 0
    /\ rounds = {}

Next ==
    \/ UserButtonEdge
    \/ ExternalButtonEdge
    \/ DebounceUserExpires
    \/ RandomDelayExpires
    \/ LedTick
    \/ TimePasses

Spec == Init /\ [][Next]_vars

\* The program with its timer delivered: the clock goes on, and a callback
\* that is due is called.  Nothing is assumed of the buttons.
SpecLive ==
    /\ Init
    /\ [][Next]_vars
    /\ WF_vars(TimePasses)
    /\ WF_vars(DebounceUserExpires)
    /\ WF_vars(RandomDelayExpires)
    /\ WF_vars(LedTick)

-----------------------------------------------------------------------------
(* Handlers run line by line.  A handler that has begun executes its lines *)
(* one at a time; between two of them a handler of another interrupt line  *)
(* may run (to completion).  The clock reads the same throughout, so a     *)
(* button edge and a callback of one clock reading come in either order.   *)

\* The interrupt of event ev is taken: the handler is entered.
Begin(ev) ==
    /\ Idle
    /\ slow < MaxSlow
    /\ slow' = slow + 1
    /\ Raised(ev)
    /\ Commit(Dispatch(ev, Cur))
    /\ irq' = [run |-> Body(ev), ev |-> ev, pre |-> Snap(Cur), accepted |-> FALSE,
               sw |-> "none", su |-> since_user, se |-> since_ext, sg |-> since_go, hit |-> {}]
    /\ since_ext' = IF ev = "ext" THEN 0 ELSE since_ext
    /\ since_go' = IF ev = "delay" THEN 0 ELSE since_go
    /\ rounds' = IF ev = "ext" THEN {} ELSE rounds
    /\ UNCHANGED <<last, since_user>>

\* The handler in progress executes its next line.
Step ==
    /\ ~ Idle
    /\ LET l == Head(irq.run)
       IN  \E r \in IF l = 117 THEN RandValues ELSE {0} :
             LET post == Exec(l, Cur, r)
                 rest == Rest(l, Cur, Tail(irq.run))
                 acc  == IF l = 184 THEN ~ user_button_debouncing ELSE irq.accepted
                 sw   == IF l = 196 THEN state ELSE irq.sw
             IN  /\ Commit(post)
                 /\ irq' = IF rest = <<>> THEN IdleIrq
                           ELSE [irq EXCEPT !.run = rest, !.accepted = acc, !.sw = sw]
                 /\ last' = IF rest = <<>>
                            THEN Record(irq.ev, irq.pre, acc, sw, irq.su, irq.se, irq.sg,
                                        irq.hit)
                            ELSE last
                 /\ since_user' = IF l = 184 /\ acc THEN 0 ELSE since_user
                 /\ rounds' = IF l = 150 THEN rounds \cup {post.reaction_time} ELSE rounds
    /\ UNCHANGED <<slow, since_ext, since_go>>

\* A handler of another interrupt line interrupts the handler in progress.
Preempt(ev) ==
    /\ ~ Idle
    /\ IrqLine(ev) # IrqLine(irq.ev)
    /\ Handle(ev)
    /\ irq' = [irq EXCEPT !.hit = @ \cup {ev}]
    /\ UNCHANGED slow

BeginHandler == \E ev \in Events : Begin(ev)

Interrupt == \E ev \in Events : Preempt(ev)

NextIrq ==
    \/ Next
    \/ BeginHandler
    \/ Step
    \/ Interrupt

SpecIrq == Init /\ [][NextIrq]_vars

-----------------------------------------------------------------------------
(* The claims. *)

Phases == {"PREGAME", "START", "GAME", "RESULT", "CHEATING"}

\* The table of section 4.4: the phase after an accepted user press.
AfterUserPress(s) ==
    CASE s = "PREGAME"  -> "START"
      [] s = "START"    -> "CHEATING"
      [] s = "GAME"     -> "RESULT"
      [] s = "RESULT"   -> "PREGAME"
      [] s = "CHEATING" -> "PREGAME"

\* The least of a non-empty set of uint32_t values.
U32Min(S) == CHOOSE x \in S : \A y \in S : ~ U32Less(y, x)

\* C1: the phase is always one of the five, and after every handler it is
\* the phase the table gives for the phase the handler found and its event:
\* an accepted user press moves PREGAME to START, START to CHEATING, GAME to
\* RESULT, RESULT and CHEATING to PREGAME; the go-delay expires in START only
\* and moves it to GAME; an external press moves any phase to PREGAME; a
\* dropped press, a blink tick and a debounce expiry change no phase.
C1_TransitionTable ==
    /\ state \in Phases
    /\ last.ev = "user" /\ last.accepted => state = AfterUserPress(last.pre.state)
    /\ last.ev = "user" /\ ~ last.accepted => state = last.pre.state
    /\ last.ev = "delay" => last.pre.state = "START" /\ state = "GAME"
    /\ last.ev \in {"ext", "main"} => state = "PREGAME"
    /\ last.ev \in {"tick", "debounce"} => state = last.pre.state

\* C1 witness: a round has been completed and a later early press, which
\* led to CHEATING, has been followed by the press that leads to PREGAME.
C1_Witness ==
    /\ last.ev = "user" /\ last.accepted
    /\ last.pre.state = "CHEATING" /\ state = "PREGAME"
    /\ rounds # {}

\* C2 (as claimed): a user press that the switch of line 196 found in START,
\* and so called detect_cheating, leaves the machine in CHEATING when its
\* handler completes, also when callbacks of the timer interrupted it.
C2_PressInWaitingCheats ==
    (Idle /\ last.ev = "user" /\ last.sw = "START" /\ last.hit \subseteq {"delay"})
        => state = "CHEATING"

C4_BestIsMinimum ==
    /\ fastest_time = IF rounds = {} THEN UINT32_MAX ELSE U32Min(rounds)
    /\ last.ev # "ext" => ~ U32Less(last.pre.fastest_time, fastest_time)

\* C4 witness: two rounds of different times have been completed, the
\* later one the slower.
C4_Witness ==
    /\ Cardinality(rounds) >= 2
    /\ last.ev = "user" /\ last.pre.state = "GAME"
    /\ U32Less(fastest_time, reaction_time)

\* C5: when the handler of an external press has completed, fastest_time is
\* UINT32_MAX, reaction_time is 0 and the LED is off; no other handler leaves
\* fastest_time greater than it found it or sets it back to UINT32_MAX.
C5_ResetClearsRecords ==
    /\ last.ev = "ext" =>
          /\ fastest_time = UINT32_MAX
          /\ reaction_time = ToU32(0)
          /\ green_led = 0
    /\ last.ev # "ext" =>
          /\ ~ U32Less(last.pre.fastest_time, fastest_time)
          /\ fastest_time = UINT32_MAX => last.pre.fastest_time = UINT32_MAX

\* C5 witness: an external press has found a fastest time on record, a
\* round in progress and the LED on.
C5_Witness ==
    /\ last.ev = "ext"
    /\ last.pre.fastest_time # UINT32_MAX
    /\ last.pre.state = "GAME" /\ last.pre.green_led = 1
    /\ fastest_time = UINT32_MAX

C7_ExternalDebounce ==
    (last.ev = "ext" /\ last.se < QuietWindow) =>
        /\ state = last.pre.state
        /\ random_delay.on = last.pre.random_delay_on
        /\ fastest_time = last.pre.fastest_time
        /\ reaction_time = last.pre.reaction_time

\* C8: a go-delay is attached only while the phase is START, start_game
\* never attaches one while another is attached, and the go-delay's callback
\* is never called in a phase other than START.
C8_DelayOnlyInWaiting ==
    /\ random_delay.on => state = "START"
    /\ last.ev = "delay" => last.pre.state = "START"
    /\ last.ev = "user" /\ last.sw = "PREGAME" => ~ last.pre.random_delay_on

\* C8 witness: an early press has found the go-delay attached and has
\* detached it.
C8_Witness ==
    /\ last.ev = "user" /\ last.sw = "START"
    /\ last.pre.random_delay_on /\ ~ random_delay.on
    /\ state = "CHEATING"

C10_DelayRange ==
    /\ random_delay.on => 1000 <= random_delay.dur /\ random_delay.dur < 5000
    /\ last.ev = "user" /\ last.sw = "PREGAME" => random_delay.on

\* C10 witness: the go-delay attached for rand() = 3999 lasts 4999 ms.
C10_Witness ==
    /\ state = "START"
    /\ random_delay.on /\ random_delay.dur = 4999 /\ random_delay.left = 4999

\* C11 (as claimed): in a handler that found the machine in START with the
\* go-delay attached and leaves START (detect_cheating called by the switch
\* of line 196, reset_game called for an external edge), nothing is written
\* before the go-delay is detached: as long as the go-delay is attached the
\* phase, the LED, the ticker and the records are as the handler found them.
C11_CancelBeforeAnyWrite ==
    ( /\ ~ Idle
      /\ irq.hit = {}
      /\ irq.pre.state = "START" /\ irq.pre.random_delay_on
      /\ irq.ev = "ext" \/ irq.sw = "START"
      /\ random_delay.on )
    => /\ state = "START"
       /\ green_led = irq.pre.green_led
       /\ led_ticker.on = irq.pre.led_ticker_on
       /\ fastest_time = irq.pre.fastest_time
       /\ reaction_time = irq.pre.reaction_time

\* C12: with handlers run to completion the ticker is attached exactly in
\* PREGAME and CHEATING, with a period of 100 ms in PREGAME and of 500 ms in
\* CHEATING, and toggle_led is never called in START, GAME or RESULT.
C12_BlinkOnlyInPreGameAndCheating ==
    /\ led_ticker.on <=> state \in {"PREGAME", "CHEATING"}
    /\ state = "PREGAME" => led_ticker.period = 100
    /\ state = "CHEATING" => led_ticker.period = 500
    /\ last.ev = "tick" => last.pre.state \in {"PREGAME", "CHEATING"}

\* C12 witness: the slow blink has ticked in CHEATING.
C12_Witness ==
    /\ state = "CHEATING"
    /\ last.ev = "tick" /\ last.pre.led_ticker_period = 500
    /\ led_ticker.on /\ led_ticker.left = 500

C14_DroppedEdgeStep ==
    (last'.ev = "user" /\ ~ last'.accepted /\ last' # last) => UNCHANGED prog

C14_WindowNotExtended ==
    /\ user_button_debouncing =>
          /\ debounce_user_button.on
          /\ debounce_user_button.left = QuietWindow - since_user
    /\ last.ev = "user" /\ ~ last.accepted =>
          /\ user_button_debouncing
          /\ Snap(Cur) = last.pre

C14_DroppedEdgeChangesNothing ==
    [] C14_WindowNotExtended /\ [][C14_DroppedEdgeStep]_vars

\* C14 witness: a user edge 100 ms after the accepted edge that entered
\* RESULT has been dropped, and the debounce Timeout has 100 ms left.
C14_Witness ==
    /\ last.ev = "user" /\ ~ last.accepted /\ last.su = 100
    /\ state = "RESULT"
    /\ user_button_debouncing /\ debounce_user_button.left = 100

\* C15: the program starts in PREGAME with the 100 ms blink attached; some
\* step is always possible; while the phase is START the go-delay is
\* pending and expires at most 5000 ms after it was attached; a step that
\* leaves START without a button edge is the go-delay's callback, taken
\* when the delay has run down, and it enters GAME; and with the timer
\* delivered START is always left.
C15_Starts ==
    /\ state = "PREGAME"
    /\ led_ticker.on /\ led_ticker.period = 100

C15_DelayPending ==
    /\ ENABLED <<Next>>_vars
    /\ state = "START" =>
          /\ random_delay.on
          /\ random_delay.left >= 0 /\ random_delay.left <= random_delay.dur
          /\ random_delay.dur <= 5000

C15_LeavesByExpiry ==
    (state = "START" /\ state' # "START" /\ last'.ev \notin {"user", "ext"}) =>
        /\ last'.ev = "delay"
        /\ Due(random_delay)
        /\ state' = "GAME"

C15_WaitingIsLeft ==
    /\ C15_Starts
    /\ [] C15_DelayPending
    /\ [][C15_LeavesByExpiry]_vars
    /\ (state = "START") ~> (state # "START")

\* C15 witness: the longest go-delay (4999 ms) has expired with no button
\* edge since START was entered, and the phase is GAME.
C15_Witness ==
    /\ state = "GAME" /\ last.ev = "delay" /\ last.pre.state = "START"
    /\ last.su = QuietWindow
    /\ since_go = 0

\* C16: when the go-delay's callback has fired in the middle of reset_game,
\* the handler of an external edge that found the go-delay pending, then
\* once reset_game has completed the phase is PREGAME, the LED is off, the
\* 100 ms blink is attached, the reaction timer is not running and the
\* go-delay is detached.
C16_ResetSurvivesStaleGo ==
    ( /\ Idle
      /\ last.ev = "ext"
      /\ last.pre.random_delay_on
      /\ "delay" \in last.hit )
    => /\ state = "PREGAME"
       /\ green_led = 0
       /\ led_ticker.on /\ led_ticker.period = 100
       /\ ~ reaction_timer.running
       /\ ~ random_delay.on

C18_TimerRunsInArmed ==
    reaction_timer.running <=> state = "GAME"

C18_WriteOnlyOnResultOrReset ==
    reaction_time' # reaction_time =>
        \/ /\ state = "GAME" /\ state' = "RESULT"
           /\ last'.ev = "user" /\ last'.accepted
           /\ reaction_time' = ToU32(reaction_timer.elapsed)
        \/ /\ last'.ev = "ext"
           /\ reaction_time' = ToU32(0)

C18_TimerExactlyInArmed ==
    [] C18_TimerRunsInArmed /\ [][C18_WriteOnlyOnResultOrReset]_vars

\* C18 witness: a press 100 ms after the LED lit has entered RESULT; the
\* timer is stopped at 100 ms and reaction_time holds 100.
C18_Witness ==
    /\ state = "RESULT" /\ last.ev = "user" /\ last.pre.state = "GAME"
    /\ ~ reaction_timer.running /\ reaction_timer.elapsed = 100
    /\ reaction_time = ToU32(100)

\* C19: when the handler of a user edge accepted in PREGAME has completed
\* and the phase is START, the LED is off, also when a tick of the idle
\* blink (toggle_led) has interrupted the handler.
C19_LedOffInWaiting ==
    ( /\ Idle
      /\ last.ev = "user" /\ last.sw = "PREGAME"
      /\ last.hit \subseteq {"tick"}
      /\ state = "START" )
    => green_led = 0

=============================================================================
